---- MODULE Spec2Model ----
(***************************************************************************)
(* OnlineCatalogMaker: the catalog assembler (PDFProcessor.process) and    *)
(* the page management handlers (deletePage, reorderPages, insertPages,    *)
(* replacePage) over the catalogs / pages / clickable_areas tables, the    *)
(* per-page asset files and the per-page text databases.                   *)
(*                                                                         *)
(* Every handler is modelled statement by statement: one step per awaited  *)
(* database statement, with the file-system work that precedes it.         *)
(***************************************************************************)
EXTENDS Integers, Sequences, FiniteSets, TLC

\* ------------------------------------------------------------------ bounds
MaxSrcPages == 2
MaxId == 4
MaxPageNumber == 3
MaxBatch == 2
MaxAreas == 1
MaxRequests == 1
MaxWidth == 3
MaxHeight == 2
MaxRuns == 3

\* ------------------------------------------------------------ basic sets
FirstCatalogs == {1}
FirstSlots == {1}
Kinds == <<"pdf", "png", "jpg">>
KindSet == {Kinds[k] : k \in 1..Len(Kinds)}
Nums == 1..MaxPageNumber

\* page geometries <<width, height>> a source page can have: ratio 1.5 and 2.0
Sizes == {<<3, 2>>, <<4, 2>>}
Docs == UNION {[1..n -> Sizes] : n \in 1..MaxSrcPages}
NoDoc == <<>>

NoPage == [id |-> 0, catalog_id |-> 0, page_number |-> 0, paths |-> 0]

\* ----------------------------------------------------------------- state
VARIABLES
  catalogs,    \* catalogs table: id -> [status, total_pages, processed, error_message]
  pages,       \* pages table: set of rows [id, catalog_id, page_number, paths]
               \*   paths = n of the page_<n> prefix of pdf_path/png_path/jpg_path/text_db_path
  areas,       \* clickable_areas table: set of rows [id, page_id]
  files,       \* uploads/catalogs/<c>/pages/page_<n>.<kind>: <<kind, c, n>> -> the file exists
  textdb,      \* data/page_<c>_<n>.db: <<c, n>> -> [exists, paras]
  nextId,      \* next autoincrement id of the pages table
  nextAreaId,  \* next autoincrement id of the clickable_areas table
  asm,         \* the background PDFProcessor.process() run of each catalog
  req,         \* the page management request of each slot
  served       \* number of page management requests received so far

vars == <<catalogs, pages, areas, files, textdb, nextId, nextAreaId, asm, req, served>>

\* the ids the catalogs table can hold
CatalogIds == DOMAIN catalogs

\* the requests the server can be serving at a time
Slots == DOMAIN req

\* --------------------------------------------------------------- helpers
RECURSIVE SumSeq(_)
SumSeq(s) == IF s = <<>> THEN 0 ELSE s[1] + SumSeq(Tail(s))

CatalogPages(P, c) == {r \in P : r.catalog_id = c}
PageNumbers(P, c) == {r.page_number : r \in CatalogPages(P, c)}
Contiguous(P, c) == PageNumbers(P, c) = 1..Cardinality(CatalogPages(P, c))
    /\ \A r1, r2 \in CatalogPages(P, c) : r1.page_number = r2.page_number => r1 = r2

\* rows of a query result ordered by page_number (ties by id)
RECURSIVE OrderBy(_)
OrderBy(S) ==
  IF S = {} THEN <<>>
  ELSE LET m == CHOOSE r \in S : \A q \in S :
                  \/ r.page_number < q.page_number
                  \/ (r.page_number = q.page_number /\ r.id <= q.id)
       IN <<m>> \o OrderBy(S \ {m})

Reverse(s) == [k \in 1..Len(s) |-> s[Len(s) + 1 - k]]

\* table.unique(['catalog_id', 'page_number']): would row id taking number n collide?
UniqueViolationNoIndex(P, id, c, n) == FALSE
UniqueViolation(P, id, c, n) ==
  \E r \in P : r.id # id /\ r.catalog_id = c /\ r.page_number = n

\* UPDATE pages SET page_number = n WHERE id = id
UpdatePageNumber(P, id, n) ==
  {IF r.id = id THEN [r EXCEPT !.page_number = n] ELSE r : r \in P}

\* ----------------------------------------------------- GeometryAnalyzer
\* aspectRatio = width / height; isDoublePage = aspectRatio > 1.5 (IEEE division)
isDoublePageFromRatio15(sz) ==
  LET w == sz[1] h == sz[2] IN
  IF h > 0 THEN 2 * w >= 3 * h
  ELSE IF h = 0 THEN w > 0
  ELSE 2 * w <= 3 * h
isDoublePage(sz) ==
  LET w == sz[1] h == sz[2] IN
  IF h > 0 THEN 2 * w > 3 * h
  ELSE IF h = 0 THEN w > 0
  ELSE 2 * w < 3 * h

analyzePages(doc) == [k \in 1..Len(doc) |-> isDoublePage(doc[k])]

\* pageStructure.reduce((sum, p) => sum + (p.isDoublePage ? 2 : 1), 0)
totalOutputPagesSource(doc) == Len(doc)
totalOutputPages(doc) ==
  SumSeq([k \in 1..Len(doc) |-> IF analyzePages(doc)[k] THEN 2 ELSE 1])

\* ------------------------------------------ processPage / processSplitPage
\* one output page: write pdf, generate png+jpg, extract text, insert the row.
\*   "ok"      every step succeeds (the row insert can still hit the unique index)
\*   "raster"  generateImages throws after the pdf was written
\*   "text"    text extraction throws after initTextDb created the store
Outcomes == {"ok", "raster", "text"}

WrittenKinds(outcome) == IF outcome = "raster" THEN {"pdf"} ELSE KindSet

filesAfterProcess(c, n, outcome) ==
  [f \in DOMAIN files |->
     IF f[2] = c /\ f[3] = n /\ f[1] \in WrittenKinds(outcome) THEN TRUE ELSE files[f]]

textAfterProcess(c, n, outcome) ==
  IF outcome = "raster" THEN textdb
  ELSE [textdb EXCEPT ![<<c, n>>] =
          [exists |-> TRUE,
           paras |-> IF outcome = "ok" THEN @.paras \cup {nextId} ELSE @.paras]]

processThrows(c, n, outcome) ==
  outcome # "ok" \/ UniqueViolation(pages, 0, c, n)

pagesAfterProcess(c, n, outcome) ==
  IF processThrows(c, n, outcome) THEN pages
  ELSE pages \cup {[id |-> nextId, catalog_id |-> c, page_number |-> n, paths |-> n]}

nextIdAfterProcess(c, n, outcome) ==
  IF processThrows(c, n, outcome) THEN nextId ELSE nextId + 1

\* --------------------------------------------------------------- initial
IdleAsm == [pc |-> "idle", catalogId |-> 0, doc |-> NoDoc, pageStructure |-> <<>>,
            i |-> 0, outputPageNumber |-> 0, half |-> 0, threw |-> FALSE,
            items |-> <<>>, size |-> <<0, 0>>, crop |-> <<>>, paragraphs |-> <<>>]

NoSnapshot == [pages |-> {}, areas |-> {}, files |-> <<>>, textdb |-> <<>>, catalogs |-> <<>>]

IdleReq == [op |-> "none", pc |-> "idle", res |-> 0,
            pageId |-> 0, catalogId |-> 0, position |-> 0, doc |-> NoDoc,
            pageOrders |-> <<>>, page |-> NoPage, rows |-> <<>>,
            i |-> 0, currentPageNumber |-> 0, half |-> 0,
            trx |-> <<>>, written |-> {}, count |-> 0, unlinkThrew |-> FALSE,
            pre |-> NoSnapshot]

\* the empty database and upload directory, with room for the catalogs of C
InitFor(C) ==
  /\ catalogs = [c \in C |->
       [status |-> "none", total_pages |-> 0, processed |-> FALSE, error_message |-> FALSE]]
  /\ pages = {}
  /\ areas = {}
  /\ files = [f \in KindSet \X C \X Nums |-> FALSE]
  /\ textdb = [t \in C \X Nums |-> [exists |-> FALSE, paras |-> {}]]
  /\ nextId = 1
  /\ nextAreaId = 1
  /\ asm = [c \in C |-> IdleAsm]
  /\ req = [s \in FirstSlots |-> IdleReq]
  /\ served = 0

Init == InitFor(FirstCatalogs)

AllIdle == \A s \in Slots : req[s].pc = "idle"
AsmQuiet == \A c \in CatalogIds : asm[c].pc \in {"idle", "done"}

\* requests are served one at a time, and not while the assembler runs
Serial == AllIdle /\ AsmQuiet

\* ------------------------------------------------------- uploadCatalog
\* insert the catalog row (status processing, total_pages default 0) and
\* start processor.process() in the background
uploadCatalog(c, doc) ==
  /\ catalogs[c].status = "none"
  /\ asm[c].pc = "idle"
  /\ catalogs' = [catalogs EXCEPT ![c].status = "processing"]
  /\ asm' = [asm EXCEPT ![c] = [IdleAsm EXCEPT !.pc = "load", !.catalogId = c, !.doc = doc]]
  /\ UNCHANGED <<pages, areas, files, textdb, nextId, nextAreaId, req, served>>

\* ------------------------------------------------- PDFProcessor.process
\* mkdir, load, analyzePages, then UPDATE catalogs SET total_pages, status
processLoad(c, loads) ==
  /\ asm[c].pc = "load"
  /\ IF loads
       THEN /\ catalogs' = [catalogs EXCEPT
                 ![c].total_pages = totalOutputPages(asm[c].doc),
                 ![c].status = "processing"]
            /\ asm' = [asm EXCEPT ![c].pc = "pages", ![c].i = 1, ![c].outputPageNumber = 1,
                                  ![c].pageStructure = analyzePages(asm[c].doc)]
       ELSE /\ asm' = [asm EXCEPT ![c].pc = "catch"]
            /\ UNCHANGED catalogs
  /\ UNCHANGED <<pages, areas, files, textdb, nextId, nextAreaId, req, served>>

\* the inner try/catch of the loop logs the error and throws it again
rethrowsSwallowed(threw) == FALSE
rethrows(threw) == threw

\* outputPageNumber after a source page: += 2 after a double page, += 1 otherwise
nextOutputPageNumberSkipping(n, double) == n + 2
nextOutputPageNumber(n, double) == n + (IF double THEN 2 ELSE 1)

\* one output page of the loop: processPage, or one half of processDoublePage
processStep(c, outcome) ==
  /\ asm[c].pc = "pages"
  /\ asm[c].i <= Len(asm[c].doc)
  /\ LET double == asm[c].pageStructure[asm[c].i]
         n == asm[c].outputPageNumber + asm[c].half
         threw == processThrows(c, n, outcome)
         last == ~double \/ asm[c].half = 1
     IN /\ files' = filesAfterProcess(c, n, outcome)
        /\ textdb' = textAfterProcess(c, n, outcome)
        /\ pages' = pagesAfterProcess(c, n, outcome)
        /\ nextId' = nextIdAfterProcess(c, n, outcome)
        /\ asm' = [asm EXCEPT ![c] =
             IF rethrows(threw) THEN [@ EXCEPT !.pc = "catch", !.threw = threw]
             ELSE IF last
               THEN [@ EXCEPT !.i = @ + 1, !.half = 0, !.threw = @ \/ threw,
                              !.outputPageNumber = nextOutputPageNumber(@, double)]
               ELSE [@ EXCEPT !.half = 1, !.threw = @ \/ threw]]
  /\ UNCHANGED <<catalogs, areas, nextAreaId, req, served>>

\* process() returned or threw: its locals are gone
Returned(a) == [IdleAsm EXCEPT !.pc = "done", !.catalogId = a.catalogId, !.threw = a.threw]

\* after the loop: UPDATE catalogs SET processed = true, status = 'ready'
processFinish(c) ==
  /\ asm[c].pc = "pages"
  /\ asm[c].i > Len(asm[c].doc)
  /\ catalogs' = [catalogs EXCEPT ![c].status = "ready", ![c].processed = TRUE]
  /\ asm' = [asm EXCEPT ![c] = Returned(@)]
  /\ UNCHANGED <<pages, areas, files, textdb, nextId, nextAreaId, req, served>>

\* the catch block writes the catalogs table only: the page rows stay
pagesAfterCatchRolledBack(c) == pages \ CatalogPages(pages, c)
pagesAfterCatch(c) == pages

\* the status the catch block writes
statusAfterCatchKept(status) == status
statusAfterCatch(status) == "error"

\* catch: UPDATE catalogs SET status = 'error', error_message; rethrow
processCatch(c) ==
  /\ asm[c].pc = "catch"
  /\ catalogs' = [catalogs EXCEPT ![c].status = statusAfterCatch(@),
                                  ![c].error_message = TRUE]
  /\ pages' = pagesAfterCatch(c)
  /\ asm' = [asm EXCEPT ![c] = Returned(@)]
  /\ UNCHANGED <<areas, files, textdb, nextId, nextAreaId, req, served>>

\* the uploads the bounds leave room for
UploadFits(doc) ==
  /\ totalOutputPages(doc) <= MaxPageNumber
  /\ nextId + totalOutputPages(doc) - 1 <= MaxId

\* the steps of the run of catalog c
Run(c) ==
  \/ \E loads \in BOOLEAN : processLoad(c, loads)
  \/ \E outcome \in Outcomes : processStep(c, outcome)
  \/ processFinish(c)
  \/ processCatch(c)

Assembler ==
  \/ /\ Serial
     /\ \E c \in CatalogIds, doc \in Docs : UploadFits(doc) /\ uploadCatalog(c, doc)
  \/ \E c \in CatalogIds : Run(c)

\* ------------------------------------------------ page management: common
\* the tables and files as they are when a request arrives
Snapshot == [pages |-> pages, areas |-> areas, files |-> files,
             textdb |-> textdb, catalogs |-> catalogs]

Arrive(op) == [IdleReq EXCEPT !.op = op, !.pre = Snapshot]
Respond(r, code) == [r EXCEPT !.pc = "done", !.res = code]
CanArrive(s) == req[s].pc = "idle" /\ served < MaxRequests * Cardinality(Slots)

\* the response was sent and the handler returned
finish(s) ==
  /\ req[s].pc = "done"
  /\ req' = [req EXCEPT ![s] = IdleReq]
  /\ UNCHANGED <<catalogs, pages, areas, files, textdb, nextId, nextAreaId, asm, served>>

\* the highest page number of the catalog (0 when it has no page)
MaxNumber(c) == IF CatalogPages(pages, c) = {} THEN 0
                ELSE CHOOSE n \in PageNumbers(pages, c) : \A m \in PageNumbers(pages, c) : m <= n

\* the page ids a request names: those of the stored pages and one of no page
PageIds == {r.id : r \in pages} \cup {nextId}

\* the documents sent as a replacement: one page of either geometry, or two
\* single pages (which is rejected)
ReplaceDocs == {doc \in Docs : \/ Len(doc) = 1
                               \/ Len(doc) = 2 /\ \A k \in 1..2 : ~isDoublePage(doc[k])}

PageById(id) == IF \E r \in pages : r.id = id
                THEN CHOOSE r \in pages : r.id = id ELSE NoPage

\* try { unlink pdf; unlink png; unlink jpg; unlink text db } catch { log }:
\* unlink of a missing file throws, which skips the unlinks after it
unlinkReaches(c, n, k) == \A j \in 1..k : files[<<Kinds[j], c, n>>]

\* the unlink calls of the try block are numbered 1..Unlinks (the text store
\* is the last one); the file system can make call number stop throw (EACCES,
\* EBUSY); NoStop: it makes none throw
Unlinks == Len(Kinds) + 1
NoStop == Unlinks + 1

filesAfterUnlinkStop(page, stop) ==
  [f \in DOMAIN files |->
     IF f[2] = page.catalog_id /\ f[3] = page.paths
        /\ \E k \in 1..Len(Kinds) :
             Kinds[k] = f[1] /\ k < stop /\ unlinkReaches(page.catalog_id, page.paths, k)
     THEN FALSE ELSE files[f]]

textAfterUnlinkStop(page, stop) ==
  IF Unlinks < stop /\ unlinkReaches(page.catalog_id, page.paths, Len(Kinds))
  THEN [textdb EXCEPT ![<<page.catalog_id, page.paths>>] = [exists |-> FALSE, paras |-> {}]]
  ELSE textdb

\* the catch block of the unlinks was entered
unlinkThrows(page, stop) ==
  \/ stop <= Unlinks
  \/ ~unlinkReaches(page.catalog_id, page.paths, Len(Kinds))
  \/ ~textdb[<<page.catalog_id, page.paths>>].exists

\* catch (error) { console.error(...) }: the handler goes on
unlinkRethrowsToHandler(threw) == threw
unlinkRethrows(threw) == FALSE

filesAfterUnlink(page) == filesAfterUnlinkStop(page, NoStop)
textAfterUnlink(page) == textAfterUnlinkStop(page, NoStop)

\* DELETE FROM pages WHERE id; clickable_areas rows follow by ON DELETE CASCADE
pagesAfterDelete(id) == {r \in pages : r.id # id}
areasAfterDelete(id) == {a \in areas : a.page_id # id}

\* ---------------------------------------------------------- deletePage
\* SELECT the page; 404 when missing; otherwise unlink its files
deleteSelectStop(s, pageId, stop) ==
  /\ CanArrive(s)
  /\ served' = served + 1
  /\ LET page == PageById(pageId) IN
     IF page = NoPage
       THEN /\ req' = [req EXCEPT ![s] = Respond([Arrive("delete") EXCEPT !.pageId = pageId], 404)]
            /\ UNCHANGED <<files, textdb>>
       ELSE /\ req' = [req EXCEPT ![s] =
                 LET r == [Arrive("delete") EXCEPT
                             !.pc = "deleteRow", !.pageId = pageId, !.page = page,
                             !.catalogId = page.catalog_id,
                             !.unlinkThrew = unlinkThrows(page, stop)]
                 IN IF unlinkRethrows(r.unlinkThrew) THEN Respond(r, 500) ELSE r]
            /\ files' = filesAfterUnlinkStop(page, stop)
            /\ textdb' = textAfterUnlinkStop(page, stop)
  /\ UNCHANGED <<catalogs, pages, areas, nextId, nextAreaId, asm>>

\* the same when the file system makes no unlink throw
deleteSelect(s, pageId) == deleteSelectStop(s, pageId, NoStop)

\* DELETE FROM pages WHERE id = pageId
deleteRow(s) ==
  /\ req[s].op = "delete" /\ req[s].pc = "deleteRow"
  /\ pages' = pagesAfterDelete(req[s].pageId)
  /\ areas' = areasAfterDelete(req[s].pageId)
  /\ req' = [req EXCEPT ![s].pc = "selectRemaining"]
  /\ UNCHANGED <<catalogs, files, textdb, nextId, nextAreaId, asm, served>>

\* SELECT * FROM pages WHERE catalog_id ORDER BY page_number
deleteSelectRemaining(s) ==
  /\ req[s].op = "delete" /\ req[s].pc = "selectRemaining"
  /\ req' = [req EXCEPT ![s].pc = "renumber", ![s].i = 1,
                        ![s].rows = OrderBy(CatalogPages(pages, req[s].catalogId))]
  /\ UNCHANGED <<catalogs, pages, areas, files, textdb, nextId, nextAreaId, asm, served>>

\* the number remainingPages[i] is given (i is 1-based here, so i + 1 there is i)
renumberTargetZeroBased(rows, i) == i - 1
renumberTarget(rows, i) == i

\* one iteration of the renumbering loop
deleteRenumber(s) ==
  /\ req[s].op = "delete" /\ req[s].pc = "renumber"
  /\ req[s].i <= Len(req[s].rows)
  /\ LET r == req[s].rows[req[s].i]
         n == renumberTarget(req[s].rows, req[s].i)
     IN IF r.page_number = n
          THEN /\ req' = [req EXCEPT ![s].i = @ + 1]
               /\ UNCHANGED pages
          ELSE IF UniqueViolation(pages, r.id, r.catalog_id, n) /\ \E q \in pages : q.id = r.id
            THEN /\ req' = [req EXCEPT ![s] = Respond(@, 500)]
                 /\ UNCHANGED pages
            ELSE /\ pages' = UpdatePageNumber(pages, r.id, n)
                 /\ req' = [req EXCEPT ![s].i = @ + 1,
                                       ![s].written = @ \cup {r.id}]
  /\ UNCHANGED <<catalogs, areas, files, textdb, nextId, nextAreaId, asm, served>>

\* UPDATE catalogs SET total_pages = remainingPages.length
deleteTotal(s) ==
  /\ req[s].op = "delete" /\ req[s].pc = "renumber"
  /\ req[s].i > Len(req[s].rows)
  /\ catalogs' = [catalogs EXCEPT ![req[s].catalogId].total_pages = Len(req[s].rows)]
  /\ req' = [req EXCEPT ![s] = Respond(@, 200)]
  /\ UNCHANGED <<pages, areas, files, textdb, nextId, nextAreaId, asm, served>>

DeletePage(s) ==
  \/ /\ Serial
     /\ \E pageId \in PageIds : deleteSelect(s, pageId)
  \/ deleteRow(s)
  \/ deleteSelectRemaining(s)
  \/ deleteRenumber(s)
  \/ deleteTotal(s)

\* --------------------------------------------------------- reorderPages
\* request bodies: one assignment for each of the first n <= MaxBatch pages of
\* the catalog, in page order, to any position of 1..n or to the free number
\* after the last page; an assignment for a page that does not exist (nextId is
\* the id of no page); position 0, which the schema rejects; and an assignment
\* for a page of another catalog
Positions(c, n) == (1..n) \cup ({MaxNumber(c) + 1} \cap Nums)
Batches(c) ==
  LET rows == OrderBy(CatalogPages(pages, c)) IN
  UNION {{[k \in 1..n |-> [pageId |-> rows[k].id, newPosition |-> f[k]]] :
            f \in [1..n -> Positions(c, n)]} :
         n \in {m \in 1..MaxBatch : m <= Len(rows)}}
  \cup {<<[pageId |-> nextId, newPosition |-> p]>> : p \in 0..1}
  \cup {<<[pageId |-> r.id, newPosition |-> p]>> :
          r \in pages \ CatalogPages(pages, c), p \in 1..2}

\* reorderSchema: newPosition is Joi.number().min(1)
reorderSchemaValid(pageOrders) ==
  \A k \in 1..Len(pageOrders) : pageOrders[k].newPosition >= 1

\* the pages table as the statements of the open transaction see it
RECURSIVE ApplyWrites(_, _)
ApplyWrites(P, w) ==
  IF w = <<>> THEN P
  ELSE ApplyWrites(UpdatePageNumber(P, w[1][1], w[1][2]), Tail(w))

TrxView(s) == ApplyWrites(pages, req[s].trx)

\* what an update made through trx does to the table the other connections
\* read: nothing before COMMIT
trxUpdateOnDb(P, id, n) == UpdatePageNumber(P, id, n)
trxUpdate(P, id, n) == P

\* validate the body, SELECT the catalog, open the transaction
reorderBegin(s, catalogId, pageOrders) ==
  /\ CanArrive(s)
  /\ served' = served + 1
  /\ LET r == [Arrive("reorder") EXCEPT !.catalogId = catalogId, !.pageOrders = pageOrders]
     IN req' = [req EXCEPT ![s] =
          IF ~reorderSchemaValid(pageOrders) THEN Respond(r, 400)
          ELSE IF catalogs[catalogId].status = "none" THEN Respond(r, 404)
          ELSE [r EXCEPT !.pc = "trx", !.i = 1]]
  /\ UNCHANGED <<catalogs, pages, areas, files, textdb, nextId, nextAreaId, asm>>

\* the rows an assignment updates: .where({ id: order.pageId, catalog_id: catalogId })
reorderWhereAnyCatalog(r, pageId, catalogId) == r.id = pageId
reorderWhere(r, pageId, catalogId) == r.id = pageId /\ r.catalog_id = catalogId

\* trx('pages').where({id, catalog_id}).update({page_number: newPosition});
\* a unique violation throws, which rolls the transaction back
reorderUpdate(s) ==
  /\ req[s].op = "reorder" /\ req[s].pc = "trx"
  /\ req[s].i <= Len(req[s].pageOrders)
  /\ LET order == req[s].pageOrders[req[s].i]
         view == TrxView(s)
         hit == \E r \in view : reorderWhere(r, order.pageId, req[s].catalogId)
         fails == \E r \in view :
                    /\ reorderWhere(r, order.pageId, req[s].catalogId)
                    /\ UniqueViolation(view, r.id, r.catalog_id, order.newPosition)
     IN /\ req' = [req EXCEPT ![s] =
             IF ~hit THEN [@ EXCEPT !.i = @ + 1]
             ELSE IF fails THEN Respond([@ EXCEPT !.trx = <<>>], 500)
             ELSE [@ EXCEPT !.i = @ + 1,
                            !.trx = Append(@, <<order.pageId, order.newPosition>>)]]
        /\ pages' = IF hit /\ ~fails
                    THEN trxUpdate(pages, order.pageId, order.newPosition) ELSE pages
  /\ UNCHANGED <<catalogs, areas, files, textdb, nextId, nextAreaId, asm, served>>

\* the callback returned: COMMIT
reorderCommit(s) ==
  /\ req[s].op = "reorder" /\ req[s].pc = "trx"
  /\ req[s].i > Len(req[s].pageOrders)
  /\ pages' = TrxView(s)
  /\ req' = [req EXCEPT ![s] = Respond([@ EXCEPT !.trx = <<>>], 200)]
  /\ UNCHANGED <<catalogs, areas, files, textdb, nextId, nextAreaId, asm, served>>

ReorderPages(s) ==
  \/ /\ Serial
     /\ \E c \in CatalogIds : \E b \in Batches(c) : reorderBegin(s, c, b)
  \/ reorderUpdate(s)
  \/ reorderCommit(s)

\* ---------------------------------------------------------- insertPages
\* .orderBy('page_number', 'desc'): the rows come highest number first
shiftOrderAscending(rows) == rows
shiftOrder(rows) == Reverse(rows)

\* parseInt(position) < 1 is a 400, a missing catalog a 404; otherwise
\* SELECT the pages to shift (page_number >= position, descending), load the
\* document and analyse it
insertBegin(s, catalogId, position, doc) ==
  /\ CanArrive(s)
  /\ served' = served + 1
  /\ LET r == [Arrive("insert") EXCEPT !.catalogId = catalogId,
                                       !.position = position, !.doc = doc]
     IN req' = [req EXCEPT ![s] =
          IF position < 1 THEN Respond(r, 400)
          ELSE IF catalogs[catalogId].status = "none" THEN Respond(r, 404)
          ELSE [r EXCEPT !.pc = "shift", !.i = 1,
                  !.rows = shiftOrder(OrderBy({p \in CatalogPages(pages, catalogId) :
                                                 p.page_number >= position}))]]
  /\ UNCHANGED <<catalogs, pages, areas, files, textdb, nextId, nextAreaId, asm>>

\* the number pagesToShift[i] is moved to: page_number + shiftAmount
shiftTargetAllDouble(row, doc) == row.page_number + 2 * Len(doc)
shiftTarget(row, doc) == row.page_number + totalOutputPages(doc)

\* one iteration of the shift loop
insertShift(s) ==
  /\ req[s].op = "insert" /\ req[s].pc = "shift"
  /\ req[s].i <= Len(req[s].rows)
  /\ LET r == req[s].rows[req[s].i]
         n == shiftTarget(r, req[s].doc)
     IN IF UniqueViolation(pages, r.id, r.catalog_id, n) /\ \E q \in pages : q.id = r.id
          THEN /\ req' = [req EXCEPT ![s] = Respond(@, 500)]
               /\ UNCHANGED pages
          ELSE /\ pages' = UpdatePageNumber(pages, r.id, n)
               /\ req' = [req EXCEPT ![s].i = @ + 1, ![s].written = @ \cup {r.id}]
  /\ UNCHANGED <<catalogs, areas, files, textdb, nextId, nextAreaId, asm, served>>

\* the shift loop is over: currentPageNumber = positionNum
insertStartProcess(s) ==
  /\ req[s].op = "insert" /\ req[s].pc = "shift"
  /\ req[s].i > Len(req[s].rows)
  /\ req' = [req EXCEPT ![s].pc = "process", ![s].i = 1,
                        ![s].currentPageNumber = req[s].position]
  /\ UNCHANGED <<catalogs, pages, areas, files, textdb, nextId, nextAreaId, asm, served>>

\* one output page of the insert loop: processPage or half of processDoublePage
insertProcess(s, outcome) ==
  /\ req[s].op = "insert" /\ req[s].pc = "process"
  /\ req[s].i <= Len(req[s].doc)
  /\ LET c == req[s].catalogId
         double == analyzePages(req[s].doc)[req[s].i]
         n == req[s].currentPageNumber + req[s].half
         threw == processThrows(c, n, outcome)
         last == ~double \/ req[s].half = 1
     IN /\ files' = filesAfterProcess(c, n, outcome)
        /\ textdb' = textAfterProcess(c, n, outcome)
        /\ pages' = pagesAfterProcess(c, n, outcome)
        /\ nextId' = nextIdAfterProcess(c, n, outcome)
        /\ req' = [req EXCEPT ![s] =
             IF threw THEN Respond(@, 500)
             ELSE IF last
               THEN [@ EXCEPT !.i = @ + 1, !.half = 0,
                              !.currentPageNumber = @ + (IF double THEN 2 ELSE 1)]
               ELSE [@ EXCEPT !.half = 1]]
  /\ UNCHANGED <<catalogs, areas, nextAreaId, asm, served>>

\* SELECT * FROM pages WHERE catalog_id
insertCount(s) ==
  /\ req[s].op = "insert" /\ req[s].pc = "process"
  /\ req[s].i > Len(req[s].doc)
  /\ req' = [req EXCEPT ![s].pc = "total",
                        ![s].count = Cardinality(CatalogPages(pages, req[s].catalogId))]
  /\ UNCHANGED <<catalogs, pages, areas, files, textdb, nextId, nextAreaId, asm, served>>

\* UPDATE catalogs SET total_pages = allPages.length
insertTotal(s) ==
  /\ req[s].op = "insert" /\ req[s].pc = "total"
  /\ catalogs' = [catalogs EXCEPT ![req[s].catalogId].total_pages = req[s].count]
  /\ req' = [req EXCEPT ![s] = Respond(@, 200)]
  /\ UNCHANGED <<pages, areas, files, textdb, nextId, nextAreaId, asm, served>>

\* the requests the bounds leave room for
InsertFits(c, position, doc) ==
  /\ nextId + totalOutputPages(doc) - 1 <= MaxId
  /\ position + totalOutputPages(doc) - 1 <= MaxPageNumber
  /\ MaxNumber(c) >= position => MaxNumber(c) + totalOutputPages(doc) <= MaxPageNumber

InsertPages(s) ==
  \/ /\ Serial
     /\ \E c \in CatalogIds, position \in 0..MaxPageNumber, doc \in Docs :
          InsertFits(c, position, doc) /\ insertBegin(s, c, position, doc)
  \/ insertShift(s)
  \/ insertStartProcess(s)
  \/ \E outcome \in Outcomes : insertProcess(s, outcome)
  \/ insertCount(s)
  \/ insertTotal(s)

\* ---------------------------------------------------------- replacePage
\* SELECT the page; 404 when missing; otherwise unlink its files
replaceSelectStop(s, pageId, doc, stop) ==
  /\ CanArrive(s)
  /\ served' = served + 1
  /\ LET page == PageById(pageId)
         r == [Arrive("replace") EXCEPT !.pageId = pageId, !.doc = doc]
     IN IF page = NoPage
       THEN /\ req' = [req EXCEPT ![s] = Respond(r, 404)]
            /\ UNCHANGED <<files, textdb>>
       ELSE /\ req' = [req EXCEPT ![s] =
                 LET q == [r EXCEPT
                             !.pc = "areas", !.page = page, !.catalogId = page.catalog_id,
                             !.unlinkThrew = unlinkThrows(page, stop)]
                 IN IF unlinkRethrows(q.unlinkThrew) THEN Respond(q, 500) ELSE q]
            /\ files' = filesAfterUnlinkStop(page, stop)
            /\ textdb' = textAfterUnlinkStop(page, stop)
  /\ UNCHANGED <<catalogs, pages, areas, nextId, nextAreaId, asm>>

\* the same when the file system makes no unlink throw
replaceSelect(s, pageId, doc) == replaceSelectStop(s, pageId, doc, NoStop)

\* DELETE FROM clickable_areas WHERE page_id; then load the document and
\* answer 400 unless it has exactly one page
replaceAreas(s) ==
  /\ req[s].op = "replace" /\ req[s].pc = "areas"
  /\ areas' = areasAfterDelete(req[s].pageId)
  /\ req' = [req EXCEPT ![s] =
       IF Len(req[s].doc) # 1 THEN Respond(@, 400) ELSE [@ EXCEPT !.pc = "deleteRow"]]
  /\ UNCHANGED <<catalogs, pages, files, textdb, nextId, nextAreaId, asm, served>>

\* DELETE FROM pages WHERE id = pageId
replaceDeleteRow(s) ==
  /\ req[s].op = "replace" /\ req[s].pc = "deleteRow"
  /\ pages' = pagesAfterDelete(req[s].pageId)
  /\ areas' = areasAfterDelete(req[s].pageId)
  /\ req' = [req EXCEPT ![s].pc = "process"]
  /\ UNCHANGED <<catalogs, files, textdb, nextId, nextAreaId, asm, served>>

\* the number the replacement page is processed at
replaceTargetAppended(page) == MaxNumber(page.catalog_id) + 1
replaceTarget(page) == page.page_number

\* processPage(pdfDoc, pdfBytes, 0, pageNumber), then SELECT the new row
replaceProcess(s, outcome) ==
  /\ req[s].op = "replace" /\ req[s].pc = "process"
  /\ LET c == req[s].catalogId
         n == replaceTarget(req[s].page)
     IN /\ files' = filesAfterProcess(c, n, outcome)
        /\ textdb' = textAfterProcess(c, n, outcome)
        /\ pages' = pagesAfterProcess(c, n, outcome)
        /\ nextId' = nextIdAfterProcess(c, n, outcome)
        /\ req' = [req EXCEPT ![s] =
             Respond(@, IF processThrows(c, n, outcome) THEN 500 ELSE 200)]
  /\ UNCHANGED <<catalogs, areas, nextAreaId, asm, served>>

ReplacePage(s) ==
  \/ /\ Serial
     /\ nextId <= MaxId
     /\ \E pageId \in PageIds, doc \in ReplaceDocs : replaceSelect(s, pageId, doc)
  \/ replaceAreas(s)
  \/ replaceDeleteRow(s)
  \/ \E outcome \in Outcomes : replaceProcess(s, outcome)

\* ----------------------------------------------------------- createArea
\* the areas are drawn on the first page of a catalog
AreaPageIds == {r.id : r \in {q \in pages : q.page_number = 1}}

\* SELECT the page (404 when missing), INSERT INTO clickable_areas
createArea(pageId) ==
  /\ nextAreaId <= MaxAreas
  /\ PageById(pageId) # NoPage
  /\ areas' = areas \cup {[id |-> nextAreaId, page_id |-> pageId]}
  /\ nextAreaId' = nextAreaId + 1
  /\ UNCHANGED <<catalogs, pages, files, textdb, nextId, asm, req, served>>

Next ==
  \/ Assembler
  \/ \E s \in Slots : InsertPages(s)
  \/ \E s \in Slots : ReplacePage(s)
  \/ /\ Serial
     /\ \E pageId \in AreaPageIds : createArea(pageId)
  \/ \E s \in Slots : DeletePage(s)
  \/ \E s \in Slots : ReorderPages(s)
  \/ \E s \in Slots : finish(s)

Spec == Init /\ [][Next]_vars

\* ------------------------------------------------------ concurrent server
\* Express serves every request as it arrives and the assembler runs in the
\* background: no handler waits for another, for a run or for a status
\* a request is received: the handler runs up to its first database statement
Receive(s) ==
  \/ \E pageId \in PageIds : deleteSelect(s, pageId)
  \/ \E c \in CatalogIds : \E b \in Batches(c) : reorderBegin(s, c, b)
  \/ \E c \in CatalogIds, position \in 0..MaxPageNumber, doc \in Docs :
       InsertFits(c, position, doc) /\ insertBegin(s, c, position, doc)
  \/ /\ nextId <= MaxId
     /\ \E pageId \in PageIds, doc \in ReplaceDocs : replaceSelect(s, pageId, doc)

\* the handler of slot s resumes after an awaited statement
Resume(s) ==
  \/ deleteRow(s)
  \/ deleteSelectRemaining(s)
  \/ deleteRenumber(s)
  \/ deleteTotal(s)
  \/ reorderUpdate(s)
  \/ reorderCommit(s)
  \/ insertShift(s)
  \/ insertStartProcess(s)
  \/ \E outcome \in Outcomes : insertProcess(s, outcome)
  \/ insertCount(s)
  \/ insertTotal(s)
  \/ replaceAreas(s)
  \/ replaceDeleteRow(s)
  \/ \E outcome \in Outcomes : replaceProcess(s, outcome)
  \/ finish(s)

NextConc ==
  \/ \E c \in CatalogIds, doc \in Docs : UploadFits(doc) /\ uploadCatalog(c, doc)
  \/ \E c \in CatalogIds : Run(c)
  \/ \E pageId \in AreaPageIds : createArea(pageId)
  \/ \E s \in Slots : Receive(s)
  \/ \E s \in Slots : Resume(s)

SpecConc == InitFor(FirstCatalogs) /\ [][NextConc]_vars

\* ------------------------------------------------- failing unlink calls
\* Delete and Replace, one request at a time, with a file system that can make
\* any of the unlink calls of the request throw
NextUnlink ==
  \/ Assembler
  \/ /\ Serial
     /\ \E s \in Slots, pageId \in PageIds, stop \in 1..NoStop :
          deleteSelectStop(s, pageId, stop)
  \/ /\ Serial
     /\ nextId <= MaxId
     /\ \E s \in Slots, pageId \in PageIds, doc \in ReplaceDocs, stop \in 1..NoStop :
          replaceSelectStop(s, pageId, doc, stop)
  \/ \E s \in Slots :
       \/ deleteRow(s)
       \/ deleteSelectRemaining(s)
       \/ deleteRenumber(s)
       \/ deleteTotal(s)
       \/ replaceAreas(s)
       \/ replaceDeleteRow(s)
       \/ \E outcome \in Outcomes : replaceProcess(s, outcome)
       \/ finish(s)

SpecUnlink == Init /\ [][NextUnlink]_vars

\* ------------------------------------------------- concurrent deletes
\* a server that serves two requests at a time: after the upload and its run,
\* Delete requests for stored pages arrive and their statements interleave
BothSlots == {1, 2}

InitDeletes ==
  /\ catalogs = [c \in FirstCatalogs |->
       [status |-> "none", total_pages |-> 0, processed |-> FALSE, error_message |-> FALSE]]
  /\ pages = {}
  /\ areas = {}
  /\ files = [f \in KindSet \X FirstCatalogs \X Nums |-> FALSE]
  /\ textdb = [t \in FirstCatalogs \X Nums |-> [exists |-> FALSE, paras |-> {}]]
  /\ nextId = 1
  /\ nextAreaId = 1
  /\ asm = [c \in FirstCatalogs |-> IdleAsm]
  /\ req = [s \in BothSlots |-> IdleReq]
  /\ served = 0

NextDeletes ==
  \/ Assembler
  \/ /\ AsmQuiet
     /\ \E s \in Slots, pageId \in {r.id : r \in pages} : deleteSelect(s, pageId)
  \/ \E s \in Slots :
       \/ deleteRow(s)
       \/ deleteSelectRemaining(s)
       \/ deleteRenumber(s)
       \/ deleteTotal(s)
       \/ finish(s)

SpecDeletes == InitDeletes /\ [][NextDeletes]_vars

\* -------------------------------------------------------- two catalogs
\* two catalogs side by side: their runs interleave freely with each other and
\* with the requests; the requests are sent to the first catalog, once its own
\* run is over, with one-page documents
AllCatalogs == {1, 2}

OnePageDocs == {doc \in Docs : Len(doc) = 1}

ReceiveFor(s, c) ==
  \/ \E pageId \in {r.id : r \in CatalogPages(pages, c)} \cup {nextId} :
       deleteSelect(s, pageId)
  \/ \E b \in Batches(c) : reorderBegin(s, c, b)
  \/ \E position \in 0..MaxPageNumber, doc \in OnePageDocs :
       InsertFits(c, position, doc) /\ insertBegin(s, c, position, doc)
  \/ /\ nextId <= MaxId
     /\ \E pageId \in {r.id : r \in CatalogPages(pages, c)} \cup {nextId},
           doc \in ReplaceDocs : replaceSelect(s, pageId, doc)

NextTwo ==
  \/ \E c \in CatalogIds, doc \in OnePageDocs : UploadFits(doc) /\ uploadCatalog(c, doc)
  \/ \E c \in CatalogIds : Run(c)
  \/ \E c \in FirstCatalogs :
       /\ asm[c].pc \in {"idle", "done"}
       /\ \E s \in Slots : ReceiveFor(s, c)
  \/ \E s \in Slots : Resume(s)

SpecTwo == InitFor(AllCatalogs) /\ [][NextTwo]_vars

\* ------------------------------------------------- the background runs
\* uploads only: every upload starts a run, and the event loop resumes every
\* run whose awaited statement has completed
NextUploads ==
  \/ \E c \in CatalogIds, doc \in Docs : UploadFits(doc) /\ uploadCatalog(c, doc)
  \/ \E c \in CatalogIds : Run(c)

SpecUploads ==
  /\ InitFor(AllCatalogs)
  /\ [][NextUploads]_vars
  /\ \A c \in AllCatalogs : WF_vars(Run(c))

\* ------------------------------------------------------ page geometries
\* the sizes page.getSize() can return for the media box of a source page,
\* malformed boxes (no height, negative height, no width) included
GeometrySizes == (0..MaxWidth) \X (-1..MaxHeight)

GeometryDocs ==
  {doc \in UNION {[1..n -> GeometrySizes] : n \in 1..MaxSrcPages} :
     totalOutputPages(doc) <= MaxPageNumber}

\* a catalog was just uploaded with a document of any geometry
InitGeometry ==
  /\ catalogs = [c \in FirstCatalogs |->
       [status |-> "processing", total_pages |-> 0, processed |-> FALSE,
        error_message |-> FALSE]]
  /\ pages = {}
  /\ areas = {}
  /\ files = [f \in KindSet \X FirstCatalogs \X Nums |-> FALSE]
  /\ textdb = [t \in FirstCatalogs \X Nums |-> [exists |-> FALSE, paras |-> {}]]
  /\ nextId = 1
  /\ nextAreaId = 1
  /\ \E doc \in GeometryDocs :
       asm = [c \in FirstCatalogs |->
                [IdleAsm EXCEPT !.pc = "load", !.catalogId = c, !.doc = doc]]
  /\ req = [s \in FirstSlots |-> IdleReq]
  /\ served = 0

NextGeometry == \E c \in CatalogIds : Run(c)

SpecGeometry == InitGeometry /\ [][NextGeometry]_vars

\* ------------------------------------------------------------ TextIndexer
\* a text item of pdfjs: str (a sequence of characters), transform
\* <<a, b, c, d, e, f>> (JavaScript transform[0..5]), width, height, fontName
Abs(n) == IF n < 0 THEN -n ELSE n
Max(a, b) == IF a > b THEN a ELSE b

lineThreshold == 5

\* !item.str.trim(): the string has no character other than white space
IsBlank(str) == \A k \in 1..Len(str) : str[k] = " "

\* Math.abs(y - lastY) > lineThreshold
breaksAtThreshold(y, lastY) == Abs(y - lastY) >= lineThreshold
breaks(y, lastY) == Abs(y - lastY) > lineThreshold

\* words: [word] of a new paragraph
firstWordsNone(word) == <<>>
firstWords(word) == <<word>>

NoParagraph == [text |-> <<>>, x |-> 0, y |-> 0, width |-> 0, height |-> 0, words |-> <<>>]

\* paragraphs = [], currentParagraph = null, lastY = null
GroupStart == [paragraphs |-> <<>>, open |-> FALSE, currentParagraph |-> NoParagraph,
               lastY |-> 0]

\* one iteration of the for loop of groupIntoParagraphs
groupStep(st, item, viewport) ==
  IF IsBlank(item.str) THEN st
  ELSE
    LET x == item.transform[5]
        y == viewport.height - item.transform[6]
        width == item.width
        height == item.height
        word == [text |-> item.str, x |-> x, y |-> y, width |-> width, height |-> height,
                 fontName |-> item.fontName, fontSize |-> item.transform[1]]
        cp == st.currentParagraph
    IN IF ~st.open \/ breaks(y, st.lastY)
         THEN [paragraphs |-> IF st.open THEN Append(st.paragraphs, cp) ELSE st.paragraphs,
               open |-> TRUE,
               currentParagraph |-> [text |-> item.str, x |-> x, y |-> y, width |-> width,
                                     height |-> height, words |-> firstWords(word)],
               lastY |-> y]
         ELSE [paragraphs |-> st.paragraphs,
               open |-> TRUE,
               currentParagraph |-> [text |-> cp.text \o <<" ">> \o item.str,
                                     x |-> cp.x, y |-> cp.y,
                                     width |-> Max(cp.width, x + width - cp.x),
                                     height |-> Max(cp.height, height),
                                     words |-> Append(cp.words, word)],
               lastY |-> y]

RECURSIVE groupLoop(_, _, _)
groupLoop(items, viewport, k) ==
  IF k = 0 THEN GroupStart
  ELSE groupStep(groupLoop(items, viewport, k - 1), items[k], viewport)

groupIntoParagraphs(items, viewport) ==
  LET st == groupLoop(items, viewport, Len(items))
  IN IF st.open THEN Append(st.paragraphs, st.currentParagraph) ELSE st.paragraphs

\* textContent.items.filter(...): the items whose origin is in the crop region
inCropUpTo(x, y, cropX, cropY, cropWidth, cropHeight) ==
  x >= cropX /\ x <= cropX + cropWidth /\ y >= cropY /\ y <= cropY + cropHeight
inCrop(x, y, cropX, cropY, cropWidth, cropHeight) ==
  x >= cropX /\ x < cropX + cropWidth /\ y >= cropY /\ y < cropY + cropHeight

filteredItems(items, viewport, cropX, cropY, cropWidth, cropHeight) ==
  SelectSeq(items, LAMBDA item :
    inCrop(item.transform[5], viewport.height - item.transform[6],
           cropX, cropY, cropWidth, cropHeight))

\* transform: [...item.transform.slice(0, 4), transform[4] - cropX, transform[5] - cropY]
adjustedItems(items, cropX, cropY) ==
  [k \in 1..Len(items) |->
     [items[k] EXCEPT !.transform = [@ EXCEPT ![5] = @ - cropX, ![6] = @ - cropY]]]

\* the paragraphs extractTextFromCrop stores for a crop region
cropParagraphs(items, viewport, cropX, cropY, cropWidth, cropHeight) ==
  groupIntoParagraphs(
    adjustedItems(filteredItems(items, viewport, cropX, cropY, cropWidth, cropHeight),
                  cropX, cropY),
    [width |-> cropWidth, height |-> cropHeight])

\* processDoublePage: the crop regions <<cropX, cropY, cropWidth, cropHeight>>
\* of the left and the right half (halfWidth = width / 2)
cropRegions(size) ==
  LET halfWidth == size[1] \div 2
  IN {<<0, 0, halfWidth, size[2]>>, <<halfWidth, 0, halfWidth, size[2]>>}

\* the viewport of pdfjs at scale 1.0 is the page
Viewport(size) == [width |-> size[1], height |-> size[2]]

\* extractText(pdfBytes, pageIndex, pageNumber) of processPage
extractText(c) ==
  /\ asm[c].pc = "text"
  /\ asm[c].crop = <<>>
  /\ asm' = [asm EXCEPT ![c].pc = "stored",
        ![c].paragraphs = groupIntoParagraphs(asm[c].items, Viewport(asm[c].size))]
  /\ UNCHANGED <<catalogs, pages, areas, files, textdb, nextId, nextAreaId, req, served>>

\* extractTextFromCrop(pdfBytes, pageIndex, n, cropX, cropY, cropWidth, cropHeight)
extractTextFromCrop(c) ==
  /\ asm[c].pc = "text"
  /\ asm[c].crop # <<>>
  /\ asm' = [asm EXCEPT ![c].pc = "stored",
        ![c].paragraphs = cropParagraphs(asm[c].items, Viewport(asm[c].size),
                            asm[c].crop[1], asm[c].crop[2], asm[c].crop[3], asm[c].crop[4])]
  /\ UNCHANGED <<catalogs, pages, areas, files, textdb, nextId, nextAreaId, req, served>>

\* the text items a page can hold: lines at y = 130, 105, 103, 100 (the
\* viewport is 130 high) at the left edge and in the right half, an item on
\* the cut line, an item below the page, a blank item and a tall item
TextItem(str, x, f, height) ==
  [str |-> str, transform |-> <<1, 0, 0, 1, x, f>>, width |-> 1, height |-> height,
   fontName |-> "f1"]

LineText(f) == IF f = 30 THEN <<"A">> ELSE IF f = 27 THEN <<"B">>
               ELSE IF f = 0 THEN <<"C">> ELSE <<"D">>

TextItems ==
  {TextItem(LineText(f), x, f, 1) : x \in {0, 300}, f \in {0, 25, 27, 30}}
  \cup {TextItem(<<"E">>, 200, 30, 1), TextItem(<<"F">>, 0, 131, 1),
        TextItem(<<" ">>, 0, 0, 1), TextItem(<<"G">>, 0, 30, 2)}

TextContents == UNION {[1..n -> TextItems] : n \in 0..MaxRuns}

\* a single page and a double page
TextSizes == {<<90, 130>>, <<400, 130>>}

\* a run is about to extract the text of a page, or of a half of a double page
InitText ==
  /\ catalogs = [c \in FirstCatalogs |->
       [status |-> "processing", total_pages |-> 0, processed |-> FALSE,
        error_message |-> FALSE]]
  /\ pages = {}
  /\ areas = {}
  /\ files = [f \in KindSet \X FirstCatalogs \X Nums |-> FALSE]
  /\ textdb = [t \in FirstCatalogs \X Nums |-> [exists |-> FALSE, paras |-> {}]]
  /\ nextId = 1
  /\ nextAreaId = 1
  /\ \E items \in TextContents, size \in TextSizes :
       \E crop \in (IF isDoublePage(size) THEN cropRegions(size) ELSE {<<>>}) :
         asm = [c \in FirstCatalogs |->
                  [IdleAsm EXCEPT !.pc = "text", !.catalogId = c, !.items = items,
                                  !.size = size, !.crop = crop]]
  /\ req = [s \in FirstSlots |-> IdleReq]
  /\ served = 0

NextText ==
  \/ \E c \in CatalogIds : extractText(c)
  \/ \E c \in CatalogIds : extractTextFromCrop(c)

SpecText == InitText /\ [][NextText]_vars

\* ------------------------------------------------------------ getPageText
\* SELECT the row numbered n (404 when missing), open data/page_<c>_<n>.db
\* and read its paragraphs; a store that is not there has no tables (500)
getPageText(P, T, c, n) ==
  IF ~\E r \in CatalogPages(P, c) : r.page_number = n
    THEN [status |-> 404, paragraphs |-> {}]
  ELSE IF ~T[<<c, n>>].exists THEN [status |-> 500, paragraphs |-> {}]
  ELSE [status |-> 200, paragraphs |-> T[<<c, n>>].paras]

\* every page's text lookup returns the text extracted from that page
TextConsistent(P, T, c) ==
  \A r \in CatalogPages(P, c) :
    /\ r.page_number \in Nums
    /\ getPageText(P, T, c, r.page_number) = [status |-> 200, paragraphs |-> {r.id}]

TotalMatches(P, C, c) == C[c].total_pages = Cardinality(CatalogPages(P, c))

\* ---------------------------------------------------------------- claims
Answered(s) == req[s].pc = "done" /\ req[s].catalogId \in CatalogIds
Succeeded(s, op) == Answered(s) /\ req[s].op = op /\ req[s].res = 200
PrePages(s) == CatalogPages(req[s].pre.pages, req[s].catalogId)
NowPages(s) == CatalogPages(pages, req[s].catalogId)
RowOf(P, id) == CHOOSE r \in P : r.id = id

\* the batch gives every page of the catalog one position of 1..N, each once
CompleteBatch(s) ==
  LET b == req[s].pageOrders IN
  /\ Contiguous(req[s].pre.pages, req[s].catalogId)
  /\ {b[k].pageId : k \in 1..Len(b)} = {r.id : r \in PrePages(s)}
  /\ {b[k].newPosition : k \in 1..Len(b)} = 1..Cardinality(PrePages(s))
  /\ Len(b) = Cardinality(PrePages(s))

CompletePermutation(s) ==
  LET b == req[s].pageOrders IN
  /\ CompleteBatch(s)
  /\ \E k \in 1..Len(b) : RowOf(PrePages(s), b[k].pageId).page_number # b[k].newPosition

\* C1: from page numbers {1..N}, every successfully returning Delete, Insert
\* (at any position the handler accepts), Replace or Reorder (of a complete
\* batch) leaves the page numbers of the catalog exactly {1..M}, M the number
\* of rows
C1_NumbersStayContiguous ==
  \A s \in Slots :
    (/\ Answered(s) /\ req[s].res = 200
     /\ req[s].op = "reorder" => CompleteBatch(s)
     /\ PrePages(s) # {}
     /\ Contiguous(req[s].pre.pages, req[s].catalogId))
    => Contiguous(pages, req[s].catalogId)

\* C2: after Delete, Reorder, Insert or Replace returns on a ready catalog
\* whose total_pages matched its rows, total_pages equals the number of rows
C2_TotalPagesMatchesRows ==
  \A s \in Slots :
    (/\ Answered(s)
     /\ req[s].pre.catalogs[req[s].catalogId].status = "ready"
     /\ TotalMatches(req[s].pre.pages, req[s].pre.catalogs, req[s].catalogId))
    => TotalMatches(pages, catalogs, req[s].catalogId)

\* C3: after a Delete, Insert, Replace or Reorder on a catalog whose text
\* lookups were right, the text lookup by (catalogId, n) of every page row
\* numbered n finds a store holding exactly the text extracted from that page
C3_TextStoresFollowPages ==
  \A s \in Slots :
    (/\ Answered(s) /\ req[s].res = 200
     /\ req[s].op = "reorder" => CompleteBatch(s)
     /\ TextConsistent(req[s].pre.pages, req[s].pre.textdb, req[s].catalogId))
    => TextConsistent(pages, textdb, req[s].catalogId)

\* C4: Delete of the page numbered p in a catalog numbered {1..N} answers 200,
\* removes the row, leaves the pages below p untouched (not rewritten), moves
\* every page q > p to q - 1 and sets total_pages to N - 1
C4_DeleteRenumbers ==
  \A s \in Slots :
    (/\ Answered(s) /\ req[s].op = "delete" /\ req[s].page # NoPage
     /\ Contiguous(req[s].pre.pages, req[s].catalogId))
    => LET p == req[s].page.page_number IN
       /\ req[s].res = 200
       /\ {r.id : r \in NowPages(s)} = {r.id : r \in PrePages(s)} \ {req[s].pageId}
       /\ \A r \in PrePages(s) : r.id # req[s].pageId =>
            /\ r.page_number < p => (r \in pages /\ r.id \notin req[s].written)
            /\ r.page_number > p => [r EXCEPT !.page_number = @ - 1] \in pages
       /\ catalogs[req[s].catalogId].total_pages = Cardinality(PrePages(s)) - 1

C4_Witness ==
  \E s \in Slots :
    /\ Succeeded(s, "delete") /\ Contiguous(req[s].pre.pages, req[s].catalogId)
    /\ Cardinality(PrePages(s)) = 3 /\ req[s].page.page_number = 2
    /\ PageNumbers(pages, req[s].catalogId) = 1..2

\* C5: a successful Insert at 1 <= position <= N+1 of a document with k output
\* pages moves every page numbered >= position up by k, leaves the pages below
\* position unchanged, numbers the k new pages position..position+k-1 in
\* document order and sets total_pages to N + k
C5_InsertShifts ==
  \A s \in Slots :
    (/\ Succeeded(s, "insert")
     /\ Contiguous(req[s].pre.pages, req[s].catalogId)
     /\ req[s].position <= Cardinality(PrePages(s)) + 1)
    => LET k == totalOutputPages(req[s].doc)
           pos == req[s].position
           new == {r \in NowPages(s) : r.id \notin {q.id : q \in PrePages(s)}}
       IN /\ \A r \in PrePages(s) :
               /\ r.page_number < pos => (r \in pages /\ r.id \notin req[s].written)
               /\ r.page_number >= pos => [r EXCEPT !.page_number = @ + k] \in pages
          /\ Cardinality(NowPages(s)) = Cardinality(PrePages(s)) + k
          /\ Cardinality(new) = k
          /\ {r.page_number : r \in new} = pos..(pos + k - 1)
          /\ \A a, b \in new : a.id < b.id <=> a.page_number < b.page_number
          /\ catalogs[req[s].catalogId].total_pages = Cardinality(PrePages(s)) + k

C5_Witness ==
  \E s \in Slots :
    /\ Succeeded(s, "insert") /\ Contiguous(req[s].pre.pages, req[s].catalogId)
    /\ Cardinality(PrePages(s)) = 2 /\ req[s].position = 2
    /\ totalOutputPages(req[s].doc) = 1
    /\ PageNumbers(pages, req[s].catalogId) = 1..3

\* C6: Reorder with a complete permutation that is not the identity succeeds
\* and leaves every page at its assigned newPosition
C6_ReorderAppliesPermutation ==
  \A s \in Slots :
    (Answered(s) /\ req[s].op = "reorder" /\ CompletePermutation(s))
    => /\ req[s].res = 200
       /\ \A k \in 1..Len(req[s].pageOrders) :
            \E r \in pages : /\ r.id = req[s].pageOrders[k].pageId
                             /\ r.page_number = req[s].pageOrders[k].newPosition

\* C7: a successful Replace with a one-page document stores the replacement
\* under the old page's number and changes neither the number of rows, nor
\* total_pages, nor any other page's number
C7_ReplaceKeepsNumber ==
  \A s \in Slots :
    Succeeded(s, "replace")
    => /\ Len(req[s].doc) = 1
       /\ \E r \in pages :
            /\ r.id \notin {q.id : q \in req[s].pre.pages}
            /\ r.catalog_id = req[s].catalogId
            /\ r.page_number = req[s].page.page_number
            /\ pages \ {r} = req[s].pre.pages \ {req[s].page}
       /\ req[s].page \in req[s].pre.pages
       /\ Cardinality(NowPages(s)) = Cardinality(PrePages(s))
       /\ catalogs[req[s].catalogId].total_pages
            = req[s].pre.catalogs[req[s].catalogId].total_pages

C7_Witness ==
  \E s \in Slots :
    /\ Succeeded(s, "replace")
    /\ Cardinality(PrePages(s)) = 3 /\ req[s].page.page_number = 2
    /\ \E r \in pages : r.page_number = 2 /\ r.id \notin {q.id : q \in req[s].pre.pages}

\* C8: a Replace rejected because the document does not have exactly one page
\* leaves the old page's row, its pdf/png/jpg files, its text store and its
\* clickable areas as they were before the request
C8_RejectedReplaceChangesNothing ==
  \A s \in Slots :
    (Answered(s) /\ req[s].op = "replace" /\ req[s].res = 400)
    => /\ req[s].page \in pages
       /\ \A k \in KindSet :
            files[<<k, req[s].catalogId, req[s].page.paths>>]
              = req[s].pre.files[<<k, req[s].catalogId, req[s].page.paths>>]
       /\ textdb[<<req[s].catalogId, req[s].page.paths>>]
            = req[s].pre.textdb[<<req[s].catalogId, req[s].page.paths>>]
       /\ {a \in areas : a.page_id = req[s].pageId}
            = {a \in req[s].pre.areas : a.page_id = req[s].pageId}

\* C9: Reorder is all-or-nothing: while its transaction is open, and after a
\* failed assignment rolled it back, the pages table every other request reads
\* is the one from before the request; after the commit it holds the whole batch
C9_ReorderAtomic ==
  \A s \in Slots :
    req[s].op = "reorder" =>
      /\ req[s].pc = "trx" => pages = req[s].pre.pages
      /\ (req[s].pc = "done" /\ req[s].res # 200) => pages = req[s].pre.pages
      /\ (req[s].pc = "done" /\ req[s].res = 200) =>
           \A k \in 1..Len(req[s].pageOrders) :
             \A r \in NowPages(s) : r.id = req[s].pageOrders[k].pageId
                                      => r.page_number = req[s].pageOrders[k].newPosition

C9_Witness ==
  \E s \in Slots :
    /\ req[s].op = "reorder" /\ req[s].pc = "done" /\ req[s].res = 500
    /\ req[s].i = 2
    /\ \E r \in pages : /\ r.id = req[s].pageOrders[1].pageId
                        /\ r.page_number # req[s].pageOrders[1].newPosition

\* C10: the status only moves processing -> ready or processing -> error and
\* never changes once it is ready or error; it becomes ready only when every
\* source page was processed and none threw, and a run in which a page's
\* processing threw ends in error
C10_StatusTransitions ==
  [][\A c \in CatalogIds :
       /\ catalogs[c].status \in {"ready", "error"}
            => catalogs'[c].status = catalogs[c].status
       /\ catalogs'[c].status # catalogs[c].status
            => /\ catalogs[c].status \in {"none", "processing"}
               /\ catalogs[c].status = "none" => catalogs'[c].status = "processing"
       /\ (catalogs'[c].status = "ready" /\ catalogs[c].status # "ready")
            => /\ asm[c].catalogId = c /\ ~asm[c].threw
               /\ asm[c].i > Len(asm[c].doc)
               /\ Cardinality(CatalogPages(pages, c)) = totalOutputPages(asm[c].doc)
       /\ (asm'[c].pc = "done" /\ asm'[c].threw)
            => catalogs'[c].status = "error"]_vars

C10_Witness ==
  \E c \in CatalogIds :
    /\ asm[c].pc = "done" /\ asm[c].threw
    /\ catalogs[c].status = "error"
    /\ catalogs[c].error_message
    /\ CatalogPages(pages, c) # {}

\* ---------------------------------------------------------- getViewerPages
\* SELECT the catalog WHERE status = 'ready' (404 when there is none), then
\* SELECT its pages
getViewerPages(P, C, c) ==
  IF C[c].status # "ready" THEN [status |-> 404, pages |-> {}]
  ELSE [status |-> 200, pages |-> CatalogPages(P, c)]

\* C11: in every state, also between the steps of a Delete, Insert or Replace,
\* a reader that is shown a catalog as ready is shown page rows numbered exactly
\* {1..total_pages}
C11_ReadyMeansComplete ==
  \A c \in CatalogIds :
    LET seen == getViewerPages(pages, catalogs, c) IN
    seen.status = 200
    => /\ {r.page_number : r \in seen.pages} = 1..catalogs[c].total_pages
       /\ Cardinality(seen.pages) = catalogs[c].total_pages

\* output pages produced by the source pages before page i of a document
\* classified d (TRUE for double)
OutputsBefore(d, i) == SumSeq([j \in 1..(i - 1) |-> IF d[j] THEN 2 ELSE 1])

C13_PagesPersistedInOrder ==
  [][\A c \in CatalogIds :
       asm[c].pc = "pages" =>
         LET added == CatalogPages(pages', c) \ CatalogPages(pages, c) IN
         /\ \A r \in added :
              /\ PageNumbers(pages, c) = 1..(r.page_number - 1)
              /\ \A q \in CatalogPages(pages, c) :
                   /\ q.id < r.id
                   /\ textdb[<<c, q.page_number>>].exists
                   /\ q.id \in textdb[<<c, q.page_number>>].paras
              /\ textdb'[<<c, r.page_number>>].exists
              /\ r.id \in textdb'[<<c, r.page_number>>].paras
              /\ \A k \in KindSet : files'[<<k, c, r.page_number>>]
         /\ (asm'[c].pc = "pages" /\ asm'[c].i = asm[c].i + 1)
              => /\ PageNumbers(pages', c) = 1..(asm'[c].outputPageNumber - 1)
                 /\ asm'[c].outputPageNumber = 1 + OutputsBefore(asm[c].pageStructure, asm'[c].i)]_vars

C13_Witness ==
  \E c \in CatalogIds :
    /\ asm[c].pc = "pages" /\ asm[c].i = 2 /\ asm[c].half = 1
    /\ PageNumbers(pages, c) = 1..2
    /\ \A n \in 1..2 : textdb[<<c, n>>].exists /\ textdb[<<c, n>>].paras # {}
    /\ ~textdb[<<c, 3>>].exists

\* C14: when the processing of an output page throws, the run goes to its
\* catch block with the rows of the earlier pages numbered {1..m} and nothing
\* written for any page after the failed one; the catch sets status error and
\* an error message and leaves the rows and the total_pages recorded at the
\* start; the run never resumes
C14_FailedRunKeepsPrefix ==
  [][\A c \in CatalogIds :
       /\ (asm[c].pc = "catch" /\ asm[c].threw)
            => LET m == asm[c].outputPageNumber + asm[c].half - 1
                   d == asm[c].pageStructure
               IN /\ PageNumbers(pages, c) = 1..m
                  /\ Cardinality(CatalogPages(pages, c)) = m
                  /\ catalogs[c].total_pages = OutputsBefore(d, Len(d) + 1)
                  /\ m < catalogs[c].total_pages
                  /\ \A n \in Nums : n > m + 1 =>
                       /\ ~textdb[<<c, n>>].exists
                       /\ \A k \in KindSet : ~files[<<k, c, n>>]
                  /\ catalogs'[c].status = "error"
                  /\ catalogs'[c].error_message
                  /\ catalogs'[c].total_pages = catalogs[c].total_pages
                  /\ CatalogPages(pages', c) = CatalogPages(pages, c)
                  /\ asm'[c].pc = "done"
       /\ (asm[c].pc = "done" /\ asm[c].threw)
            => /\ asm'[c] = asm[c]
               /\ catalogs'[c].status = "error"
               /\ catalogs'[c].error_message]_vars

C14_Witness ==
  \E c \in CatalogIds :
    /\ asm[c].pc = "done" /\ asm[c].threw /\ served = 0
    /\ catalogs[c].status = "error" /\ catalogs[c].error_message
    /\ catalogs[c].total_pages = 3
    /\ PageNumbers(pages, c) = 1..1

\* C15: when the text extraction of an output page fails (its images are
\* written, its text store holds no paragraph of it), the page row is stored
\* all the same and the run goes on with the following pages
C15_TextFailureNotFatal ==
  [][\A c \in CatalogIds :
       LET n == asm[c].outputPageNumber + asm[c].half IN
       (/\ asm[c].pc = "pages" /\ asm'[c] # asm[c]
        /\ asm[c].i <= Len(asm[c].doc)
        /\ \A k \in KindSet : files'[<<k, c, n>>]
        /\ textdb'[<<c, n>>].exists
        /\ nextId \notin textdb'[<<c, n>>].paras)
       => /\ \E r \in CatalogPages(pages', c) : r.page_number = n /\ r.id = nextId
          /\ asm'[c].pc = "pages"
          /\ ~asm'[c].threw]_vars

\* C16: at most one structural mutator is active on a catalog at a time: a
\* Delete, Reorder, Insert or Replace request that is between its first and
\* last step, or the catalog's assembler run between its start and its end
Mutators(c) ==
  {<<"request", s>> : s \in {t \in Slots : req[t].pc \notin {"idle", "done"}
                                           /\ req[t].catalogId = c}}
  \cup {<<"assembler", c>> : x \in {y \in {c} : asm[y].pc \in {"load", "pages", "catch"}}}

C16_OneMutatorAtATime ==
  \A c \in CatalogIds : Cardinality(Mutators(c)) <= 1

\* what a reader can see of catalog c: its row, its page rows, its asset
\* files and its text stores
CatalogView(c) ==
  [catalog |-> catalogs[c],
   rows |-> CatalogPages(pages, c),
   files |-> [f \in KindSet \X Nums |-> files[<<f[1], c, f[2]>>]],
   text |-> [n \in Nums |-> textdb[<<c, n>>]]]

\* C17: a step of catalog A's assembler run, or of a Delete, Reorder, Insert or
\* Replace on catalog A (also a Reorder that names a page of B), leaves
\* everything of another catalog B unchanged, wherever B's own run is
C17_CatalogsIndependent ==
  [][\A b \in CatalogIds :
       (/\ asm'[b] = asm[b]
        /\ \A s \in Slots : req'[s] # req[s]
             => (req[s].catalogId # b /\ req'[s].catalogId # b))
       => CatalogView(b)' = CatalogView(b)]_vars

C17_Witness ==
  \E s \in Slots : \E b \in CatalogIds :
    /\ req[s].op = "reorder" /\ req[s].pc = "done" /\ req[s].res = 200
    /\ req[s].catalogId # b
    /\ asm[b].pc = "pages"
    /\ \E r \in CatalogPages(pages, b) :
         /\ r.id = req[s].pageOrders[1].pageId
         /\ r.page_number # req[s].pageOrders[1].newPosition

RatioAbove(w, h, num, den) ==
  IF h > 0 THEN den * w > num * h
  ELSE IF h = 0 THEN w > 0
  ELSE den * w < num * h

C19_DoubleIffRatioAbove15 ==
  \A c \in CatalogIds :
    asm[c].pc = "pages" =>
      /\ Len(asm[c].pageStructure) = Len(asm[c].doc)
      /\ \A k \in 1..Len(asm[c].doc) :
           LET w == asm[c].doc[k][1]
               h == asm[c].doc[k][2]
           IN /\ asm[c].pageStructure[k] <=> RatioAbove(w, h, 3, 2)
              /\ (h > 0 /\ 2 * w = 3 * h) => ~asm[c].pageStructure[k]
              /\ (h > 0 /\ 2 * w > 3 * h) => asm[c].pageStructure[k]

C19_Witness ==
  \E c \in CatalogIds :
    /\ asm[c].pc = "pages"
    /\ asm[c].doc = <<<<3, 2>>, <<2, 1>>>>
    /\ asm[c].pageStructure = <<FALSE, TRUE>>

\* C20: a run whose document has a page of zero or negative height stops at
\* the geometry analysis: it never enters the page loop
C20_InvalidGeometryIsFatal ==
  \A c \in CatalogIds :
    asm[c].pc = "pages" => \A k \in 1..Len(asm[c].doc) : asm[c].doc[k][2] > 0

\* the call of groupIntoParagraphs a finished text extraction has made: its
\* items and its viewport
GroupedItems(a) ==
  IF a.crop = <<>> THEN a.items
  ELSE adjustedItems(filteredItems(a.items, Viewport(a.size),
                                   a.crop[1], a.crop[2], a.crop[3], a.crop[4]),
                     a.crop[1], a.crop[2])

GroupedViewport(a) ==
  IF a.crop = <<>> THEN Viewport(a.size) ELSE [width |-> a.crop[3], height |-> a.crop[4]]

\* the runs that are not skipped, in input order
KeptRuns(a) == SelectSeq(GroupedItems(a), LAMBDA item : ~IsBlank(item.str))
RunY(a, k) == GroupedViewport(a).height - KeptRuns(a)[k].transform[6]

RECURSIVE AllWords(_)
AllWords(paragraphs) ==
  IF paragraphs = <<>> THEN <<>>
  ELSE paragraphs[1].words \o AllWords(Tail(paragraphs))

\* the positions, among all words, of the first word of each paragraph
ParagraphStarts(paragraphs) ==
  {1 + Len(AllWords(SubSeq(paragraphs, 1, p - 1))) : p \in 1..Len(paragraphs)}

RECURSIVE SpaceJoined(_)
SpaceJoined(words) ==
  IF words = <<>> THEN <<>>
  ELSE IF Len(words) = 1 THEN words[1].text
  ELSE words[1].text \o <<" ">> \o SpaceJoined(Tail(words))

C22_ParagraphBoxIsUnion ==
  \A c \in CatalogIds :
    asm[c].pc = "stored" =>
      \A p \in 1..Len(asm[c].paragraphs) :
        LET para == asm[c].paragraphs[p]
            ws == {para.words[k] : k \in 1..Len(para.words)}
        IN /\ \A w \in ws : /\ para.x <= w.x
                            /\ para.y <= w.y
                            /\ w.x + w.width <= para.x + para.width
                            /\ w.y + w.height <= para.y + para.height
           /\ \E w \in ws : para.x = w.x
           /\ \E w \in ws : para.y = w.y
           /\ \E w \in ws : para.x + para.width = w.x + w.width
           /\ \E w \in ws : para.y + para.height = w.y + w.height

\* a stored word as a text item of the same viewport
ItemOfWord(word, viewport) ==
  [str |-> word.text,
   transform |-> <<word.fontSize, 0, 0, word.fontSize, word.x, viewport.height - word.y>>,
   width |-> word.width, height |-> word.height, fontName |-> word.fontName]

Regrouped(a) ==
  LET words == AllWords(a.paragraphs)
  IN groupIntoParagraphs([k \in 1..Len(words) |-> ItemOfWord(words[k], GroupedViewport(a))],
                         GroupedViewport(a))

\* C23: grouping the words of the stored paragraphs again, in output order,
\* gives as many paragraphs, with the same words in each
C23_RegroupingKeepsBoundaries ==
  \A c \in CatalogIds :
    asm[c].pc = "stored" =>
      /\ Len(Regrouped(asm[c])) = Len(asm[c].paragraphs)
      /\ \A p \in 1..Len(asm[c].paragraphs) :
           Regrouped(asm[c])[p].words = asm[c].paragraphs[p].words

C23_Witness ==
  \E c \in CatalogIds :
    /\ asm[c].pc = "stored"
    /\ Len(asm[c].items) = 3
    /\ Len(asm[c].paragraphs) = 2
    /\ Len(asm[c].paragraphs[1].words) = 2
    /\ Regrouped(asm[c]) = asm[c].paragraphs

\* the non-blank items of the page whose origin (x, flipped y) lies in the
\* crop region of the run
InsideRegion(a) ==
  SelectSeq(a.items, LAMBDA item :
    LET x == item.transform[5]
        y == a.size[2] - item.transform[6]
    IN /\ ~IsBlank(item.str)
       /\ a.crop[1] <= x /\ x < a.crop[1] + a.crop[3]
       /\ a.crop[2] <= y /\ y < a.crop[2] + a.crop[4])

\* C24: for a half of a double page, the stored words are the runs whose origin
\* is in the crop region, with x' = x - region.x, and every stored word has
\* 0 <= x' < region.w and 0 <= y' < region.h
C24_CropCoordinatesInRegion ==
  \A c \in CatalogIds :
    (asm[c].pc = "stored" /\ asm[c].crop # <<>>) =>
      LET a == asm[c]
          words == AllWords(a.paragraphs)
      IN /\ Len(words) = Len(InsideRegion(a))
         /\ \A k \in 1..Len(words) :
              /\ words[k].text = InsideRegion(a)[k].str
              /\ words[k].x = InsideRegion(a)[k].transform[5] - a.crop[1]
              /\ 0 <= words[k].x /\ words[k].x < a.crop[3]
              /\ 0 <= words[k].y /\ words[k].y < a.crop[4]

C24_Witness ==
  \E c \in CatalogIds :
    /\ asm[c].pc = "stored"
    /\ asm[c].crop = <<200, 0, 200, 130>>
    /\ Len(asm[c].items) = 3
    /\ asm[c].items[1].transform[5] = 0
    /\ asm[c].items[2].transform[5] = 200
    /\ asm[c].items[3].transform[5] = 300
    /\ Len(AllWords(asm[c].paragraphs)) = 2
    /\ AllWords(asm[c].paragraphs)[1].x = 0
    /\ AllWords(asm[c].paragraphs)[2].x = 100

\* C25: a Delete or Replace whose unlink calls threw still makes its database
\* change: Delete answers 200 with the row removed, the pages above it moved
\* down by one and total_pages set to the number of rows left; Replace with a
\* one-page document removes the old row
C25_UnlinkFailureDoesNotBlock ==
  \A s \in Slots :
    (Answered(s) /\ req[s].unlinkThrew) =>
      /\ (req[s].op = "delete" /\ Contiguous(req[s].pre.pages, req[s].catalogId)) =>
           /\ req[s].res = 200
           /\ NowPages(s) =
                {IF r.page_number > req[s].page.page_number
                   THEN [r EXCEPT !.page_number = @ - 1] ELSE r :
                 r \in PrePages(s) \ {req[s].page}}
           /\ catalogs[req[s].catalogId].total_pages = Cardinality(NowPages(s))
      /\ (req[s].op = "replace" /\ Len(req[s].doc) = 1) =>
           /\ req[s].page \in req[s].pre.pages
           /\ req[s].pageId \notin {r.id : r \in pages}
           /\ req[s].res = 200 =>
                \E r \in pages : /\ r.catalog_id = req[s].catalogId
                                 /\ r.page_number = req[s].page.page_number

C25_Witness ==
  \E s \in Slots :
    /\ Answered(s) /\ req[s].unlinkThrew /\ req[s].op = "delete" /\ req[s].res = 200
    /\ Cardinality(PrePages(s)) = 3 /\ req[s].page.page_number = 1
    /\ files[<<"png", req[s].catalogId, 1>>]
    /\ PageNumbers(pages, req[s].catalogId) = 1..2
    /\ catalogs[req[s].catalogId].total_pages = 2

\* the batch of the Reorder of slot s gives one newPosition to two pages of
\* the catalog
DuplicateBatch(s) ==
  \E j, k \in 1..Len(req[s].pageOrders) :
    /\ j # k
    /\ req[s].pageOrders[j].newPosition = req[s].pageOrders[k].newPosition
    /\ req[s].pageOrders[j].pageId # req[s].pageOrders[k].pageId
    /\ \A i \in {j, k} : \E r \in PrePages(s) : r.id = req[s].pageOrders[i].pageId

SharedNumber(P, c) ==
  \E r1, r2 \in CatalogPages(P, c) : r1 # r2 /\ r1.page_number = r2.page_number

\* C26: a Reorder whose batch gives the same newPosition to two pages is
\* applied assignment by assignment and leaves two rows of the catalog with
\* the same page_number
C26_DuplicateBatchBreaksUniqueness ==
  \A s \in Slots :
    (Answered(s) /\ req[s].op = "reorder" /\ DuplicateBatch(s))
    => SharedNumber(pages, req[s].catalogId)

NamedOnce(s) ==
  \A j, k \in 1..Len(req[s].pageOrders) :
    req[s].pageOrders[j].pageId = req[s].pageOrders[k].pageId => j = k

\* C26 as amended: no two rows of a catalog ever share a page_number; a
\* Reorder whose batch names every page once and gives the same newPosition to
\* two pages answers 500 and changes no row, and a successful Reorder of some
\* of the pages leaves each named page at its newPosition
C26_DuplicateBatchRolledBack ==
  /\ \A c \in CatalogIds : ~SharedNumber(pages, c)
  /\ \A s \in Slots :
       (Answered(s) /\ req[s].op = "reorder") =>
         /\ (DuplicateBatch(s) /\ NamedOnce(s))
              => (req[s].res = 500 /\ pages = req[s].pre.pages)
         /\ req[s].res = 200 =>
              \A k \in 1..Len(req[s].pageOrders) :
                \A r \in NowPages(s) :
                  r.id = req[s].pageOrders[k].pageId
                  => r.page_number = req[s].pageOrders[k].newPosition

C26_Witness ==
  \E s \in Slots :
    /\ Answered(s) /\ req[s].op = "reorder" /\ DuplicateBatch(s)
    /\ req[s].res = 500
    /\ req[s].pageOrders[1].newPosition = MaxNumber(req[s].catalogId) + 1
    /\ pages = req[s].pre.pages

\* C27: an Insert or Replace on a catalog numbered {1..N} that answers 500
\* because processing the new document threw leaves the catalog's page numbers
\* as {1..M} without a gap and total_pages equal to the number of rows
C27_FailedProcessingKeepsNumbering ==
  \A s \in Slots :
    (/\ Answered(s) /\ req[s].op \in {"insert", "replace"} /\ req[s].res = 500
     /\ Contiguous(req[s].pre.pages, req[s].catalogId)
     /\ TotalMatches(req[s].pre.pages, req[s].pre.catalogs, req[s].catalogId))
    => /\ Contiguous(pages, req[s].catalogId)
       /\ TotalMatches(pages, catalogs, req[s].catalogId)

\* C28: when no request is being served, no two page rows of a catalog
\* reference the same asset files and text store (the same page_<n> prefix)
C28_AssetsNotShared ==
  (\A s \in Slots : req[s].pc \in {"idle", "done"}) =>
    \A c \in CatalogIds :
      \A r1, r2 \in CatalogPages(pages, c) : r1.paths = r2.paths => r1 = r2

\* C29: in a catalog numbered {1..N}, no row update of Delete's renumbering
\* loop and none of Insert's shift loop is rejected by the unique
\* (catalog_id, page_number) index
C29_RenumberingNeverCollides ==
  [][\A s \in Slots :
       (/\ req[s].pc \in {"renumber", "shift"}
        /\ Contiguous(req[s].pre.pages, req[s].catalogId))
       => req'[s].res # 500]_vars

C29_Witness ==
  \E s \in Slots :
    /\ Succeeded(s, "insert")
    /\ Contiguous(req[s].pre.pages, req[s].catalogId)
    /\ Cardinality(req[s].written) = 2
    /\ req[s].position = 1

\* C30: two Deletes of different pages of a catalog numbered {1..N}, with
\* their statements interleaved in any order, both answer 200 and leave the
\* catalog numbered {1..N-2} with total_pages equal to the number of rows
C30_InterleavedDeletesRenumber ==
  \A s, t \in Slots :
    (/\ s # t
     /\ Answered(s) /\ req[s].op = "delete"
     /\ Answered(t) /\ req[t].op = "delete"
     /\ Contiguous(req[s].pre.pages, req[s].catalogId)
     /\ req[s].page \in req[s].pre.pages
     /\ req[t].page \in req[s].pre.pages
     /\ req[s].catalogId = req[t].catalogId
     /\ req[s].pageId # req[t].pageId)
    => /\ req[s].res = 200 /\ req[t].res = 200
       /\ PageNumbers(pages, req[s].catalogId) = 1..(Cardinality(PrePages(s)) - 2)
       /\ Contiguous(pages, req[s].catalogId)
       /\ TotalMatches(pages, catalogs, req[s].catalogId)
====
